---- MODULE Spec2Model ----
(***************************************************************************)
(* A model of src/datagenerator.py: the DataGenerator class that indexes a *)
(* dataset directory (measurement records joined to personal records),     *)
(* decodes samples through three cached modality loaders, and produces     *)
(* batches (generate) or a full materialised dataset (generate_dataset).   *)
(*                                                                         *)
(* Strings are sequences of symbols, so that Python's substring test       *)
(* `a in b` and the lexicographic order used by sorted() are computed and  *)
(* not assumed.  A symbol is a one-character string, or one of the words   *)
(* "measurements" / "measures" that the code looks for in a path.          *)
(***************************************************************************)
EXTENDS Integers, Sequences, FiniteSets, TLC

VARIABLES
    \* ---- the dataset on disk (never written by the program) ----
    dataset_exists,        \* os.path.exists(dataset_path)
    fs_json,               \* glob of **/*.json, in glob order: <<[path, doc]>>
    fs_jpg,                \* glob of storage/person/**/*.jpg, in glob order
    fs_pcd,                \* glob of storage/person/**/*.pcd, in glob order
    fs_content,            \* path -> what the decoding library finds in the file
    numpy_strict,          \* the installed numpy raises on `array == []`
    \* ---- constructor arguments ----
    input_type,
    output_targets,
    image_target_shape,
    voxelgrid_target_shape,
    pointcloud_target_size,
    \* ---- the DataGenerator instance ----
    phase,                 \* "new" (not constructed), "ready", "failed"
    error,                 \* the exception that ended __init__, or "none"
    qrcodes,
    qrcodes_dictionary,
    image_cache,
    voxelgrid_cache,
    pointcloud_cache,
    \* ---- the caller ----
    ret,                   \* outcome of the most recent direct method call
    gen                    \* the generator object returned by generate()

vars == <<dataset_exists, fs_json, fs_jpg, fs_pcd, fs_content, numpy_strict,
          input_type, output_targets, image_target_shape,
          voxelgrid_target_shape, pointcloud_target_size,
          phase, error, qrcodes, qrcodes_dictionary,
          image_cache, voxelgrid_cache, pointcloud_cache, ret, gen>>

dataset == <<dataset_exists, fs_json, fs_jpg, fs_pcd, fs_content, numpy_strict>>
arguments == <<input_type, output_targets, image_target_shape,
               voxelgrid_target_shape, pointcloud_target_size>>
index == <<phase, error, qrcodes, qrcodes_dictionary>>
caches == <<image_cache, voxelgrid_cache, pointcloud_cache>>

----------------------------------------------------------------------------
(* Bounds of the model.                                                    *)

\* Most measurement records in a dataset (construction claims).
MaxMeasures == 3
\* Largest batch size passed to generate().
MaxBatch == 2
\* Most points in a point-cloud file.
MaxPoints == 3

----------------------------------------------------------------------------
(* Strings.                                                                *)

\* Python `sub in s` on strings.
Contains(sub, s) ==
    \E i \in 0..(Len(s) - Len(sub)) : SubSeq(s, i + 1, i + Len(sub)) = sub

\* Code point order of the characters that occur in QR-codes.
Code(c) == CASE c = "A" -> 65 [] c = "B" -> 66 [] c = "C" -> 67 [] OTHER -> 0

\* Python `s < t` on strings: lexicographic by code point, a proper prefix first.
RECURSIVE StrLess(_, _)
StrLess(s, t) ==
    IF t = <<>> THEN FALSE
    ELSE IF s = <<>> THEN TRUE
    ELSE IF Head(s) # Head(t) THEN Code(Head(s)) < Code(Head(t))
    ELSE StrLess(Tail(s), Tail(t))

\* sorted(list(set(xs))): the distinct elements in ascending order.
RECURSIVE SortedSet(_)
SortedSet(S) ==
    IF S = {} THEN <<>>
    ELSE LET m == CHOOSE x \in S : \A y \in S \ {x} : StrLess(x, y)
         IN  <<m>> \o SortedSet(S \ {m})

Range(s) == {s[i] : i \in 1..Len(s)}

\* [path for path in xs if qrcode in path and "measurements" in path]
RECURSIVE FilterPaths(_, _)
FilterPaths(xs, q) ==
    IF xs = <<>> THEN <<>>
    ELSE LET rest == FilterPaths(Tail(xs), q)
         IN  IF Contains(q, Head(xs)) /\ Contains(<<"measurements">>, Head(xs))
             THEN <<Head(xs)>> \o rest
             ELSE rest

----------------------------------------------------------------------------
(* _get_paths: the four path lists.                                        *)

\* The JSON files whose path does (measures = TRUE) or does not contain
\* "measures", in glob order.
RECURSIVE SelectJson(_, _)
SelectJson(js, measures) ==
    IF js = <<>> THEN <<>>
    ELSE LET rest == SelectJson(Tail(js), measures)
         IN  IF Contains(<<"measures">>, Head(js).path) = measures
             THEN <<Head(js)>> \o rest
             ELSE rest

jpg_paths == fs_jpg
pcd_paths == fs_pcd
json_paths_personal == SelectJson(fs_json, FALSE)
json_paths_measures == SelectJson(fs_json, TRUE)

----------------------------------------------------------------------------
(* Outcomes: a call either returns a value or raises an exception.         *)

Returns(v) == [exc |-> "none", value |-> v]
Raises(e) == [exc |-> e, value |-> <<>>]

(* _extract_qrcode: follow personId to the one personal record whose path   *)
(* contains it, and read its qrcode.                                       *)
_extract_qrcode(json_data_measure) ==
    LET person_id == json_data_measure.personId
        json_path_personal ==
            SelectSeq(json_paths_personal, LAMBDA j : Contains(person_id, j.path))
    IN  IF Len(json_path_personal) # 1
        THEN Raises("AssertionError")
        ELSE Returns(json_path_personal[1].doc.qrcode)

(* _find_qrcodes: the sorted, deduplicated QR-codes of all measurement      *)
(* records; the first failing join ends it.                                *)
_find_qrcodes ==
    LET ms == json_paths_measures
        bad == {i \in 1..Len(ms) : _extract_qrcode(ms[i].doc).exc # "none"}
    IN  IF bad # {}
        THEN Raises("AssertionError")
        ELSE Returns(SortedSet({_extract_qrcode(ms[i].doc).value : i \in 1..Len(ms)}))

\* A faulty extraction that returns the values in the reverse of the
\* requested order.
ExtractTargetsReversed(json_data_measure) ==
    IF \E k \in 1..Len(output_targets) : output_targets[k] \notin DOMAIN json_data_measure
    THEN Raises("KeyError")
    ELSE Returns([k \in 1..Len(output_targets) |->
                    json_data_measure[output_targets[Len(output_targets) + 1 - k]]])

(* _extract_targets: the record's values of the requested fields, in the    *)
(* requested order; a field the record lacks raises KeyError.              *)
_extract_targets(json_data_measure) ==
    IF \E k \in 1..Len(output_targets) : output_targets[k] \notin DOMAIN json_data_measure
    THEN Raises("KeyError")
    ELSE Returns([k \in 1..Len(output_targets) |-> json_data_measure[output_targets[k]]])

\* d with d[k] = v
Put(d, k, v) == [x \in (DOMAIN d) \cup {k} |-> IF x = k THEN v ELSE d[x]]

EmptyDict == [x \in {} |-> <<>>]

(* The loop of _create_qrcodes_dictionary over the records ms, starting     *)
(* from the dictionary d.                                                  *)
RECURSIVE DictionaryLoop(_, _)
DictionaryLoop(ms, d) ==
    IF ms = <<>> THEN Returns(d)
    ELSE LET json_data_measure == Head(ms).doc
             q == _extract_qrcode(json_data_measure)
             targets == _extract_targets(json_data_measure)
         IN  IF json_data_measure.type # "manual" THEN DictionaryLoop(Tail(ms), d)
             ELSE IF q.exc # "none" THEN Raises(q.exc)
             ELSE IF q.value \in DOMAIN d THEN Raises("Exception")
             ELSE IF targets.exc # "none" THEN Raises(targets.exc)
             ELSE DictionaryLoop(Tail(ms),
                      Put(d, q.value, <<targets.value,
                                        FilterPaths(jpg_paths, q.value),
                                        FilterPaths(pcd_paths, q.value)>>))

\* A faulty loop that lets a later manual record replace an earlier one.
RECURSIVE DictionaryLoopOverwrite(_, _)
DictionaryLoopOverwrite(ms, d) ==
    IF ms = <<>> THEN Returns(d)
    ELSE LET json_data_measure == Head(ms).doc
             q == _extract_qrcode(json_data_measure)
             targets == _extract_targets(json_data_measure)
         IN  IF json_data_measure.type # "manual" THEN DictionaryLoopOverwrite(Tail(ms), d)
             ELSE IF q.exc # "none" THEN Raises(q.exc)
             ELSE IF targets.exc # "none" THEN Raises(targets.exc)
             ELSE DictionaryLoopOverwrite(Tail(ms),
                      Put(d, q.value, <<targets.value,
                                        FilterPaths(jpg_paths, q.value),
                                        FilterPaths(pcd_paths, q.value)>>))

CreateDictionaryOverwrite == DictionaryLoopOverwrite(json_paths_measures, EmptyDict)

_create_qrcodes_dictionary == DictionaryLoop(json_paths_measures, EmptyDict)

(* __init__: the preconditions, then _get_paths, _find_qrcodes and          *)
(* _create_qrcodes_dictionary; the first exception ends construction.      *)
InitOutcome ==
    IF ~dataset_exists THEN Raises("AssertionError")
    ELSE IF Len(image_target_shape) # 2 THEN Raises("AssertionError")
    ELSE IF Len(voxelgrid_target_shape) # 3 THEN Raises("AssertionError")
    ELSE IF _find_qrcodes.exc # "none" THEN Raises(_find_qrcodes.exc)
    ELSE IF _find_qrcodes.value = <<>> THEN Raises("AssertionError")
    ELSE IF _create_qrcodes_dictionary.exc # "none"
         THEN Raises(_create_qrcodes_dictionary.exc)
    ELSE Returns(<<_find_qrcodes.value, _create_qrcodes_dictionary.value>>)

\* The value of a call that returned no array.
NoArray == [src |-> <<>>, shape |-> <<>>, rows |-> <<>>]

\* The outcome of a direct call: the method and its argument (a path, or a
\* subject list), the exception raised if any, and what it returned: an
\* array (a loader), a shape (get_input_shape) or three lists
\* (generate_dataset).  decoded: the loader read the file; loaded: the
\* number of loader calls that returned during generate_dataset.
Outcome(op) ==
    [op |-> op, path |-> <<>>, qrcodes_to_use |-> <<>>, exc |-> "none",
     value |-> NoArray, shape |-> <<>>,
     x_qrcodes |-> <<>>, x_inputs |-> <<>>, y_outputs |-> <<>>,
     decoded |-> FALSE, loaded |-> 0]

\* No direct call has returned yet.
NoRet == Outcome("none")
\* No generator object: generate() has not been called, or its result was dropped.
NoGen ==
    [state |-> "none", size |-> 0, qrcodes_to_use |-> <<>>,
     x_inputs |-> <<>>, y_outputs |-> <<>>, attempt |-> "none",
     exc |-> "none", where |-> "none"]

Construct ==
    /\ phase = "new"
    /\ LET r == InitOutcome
       IN  IF r.exc = "none"
           THEN /\ phase' = "ready"
                /\ error' = "none"
                /\ qrcodes' = r.value[1]
                /\ qrcodes_dictionary' = r.value[2]
           ELSE /\ phase' = "failed"
                /\ error' = r.exc
                /\ UNCHANGED <<qrcodes, qrcodes_dictionary>>
    /\ UNCHANGED <<dataset, arguments, caches, ret, gen>>

----------------------------------------------------------------------------
(* Datasets.                                                               *)

QrA == <<"A">>
QrB == <<"B">>
QrAB == <<"A", "B">>
P1 == <<"p", "1">>
P2 == <<"p", "2">>
Digit == <<"1", "2", "3", "4", "5", "6">>

MeasureDocs ==
    [type : {"manual", "auto"}, personId : {P1, P2},
     height : {150, 160}, weight : {45}]

\* The i-th measurement file of the glob.
MeasureFile(i, doc) == [path |-> <<"measures", Digit[i]>>, doc |-> doc]
PersonalFile(path, q) == [path |-> path, doc |-> [qrcode |-> q]]

\* The personal records of a dataset: one for P1, at most one for P2, and
\* possibly a second file whose path also contains P1's id; or none at all.
PersonalSets ==
    { <<PersonalFile(P1, QrA)>> \o two \o extra :
        two \in {<<>>, <<PersonalFile(P2, QrA)>>, <<PersonalFile(P2, QrB)>>,
                 <<PersonalFile(P2, QrAB)>>},
        extra \in {<<>>, <<PersonalFile(<<"x">> \o P1, QrB)>>} }
    \cup {<<>>}

JpgOf(q, d) == <<"measurements">> \o q \o <<"_", d, "j">>
PcdOf(q, d) == <<"measurements">> \o q \o <<"_", d, "c">>

NoContent == [x \in {} |-> <<>>]
DefaultImageShape == <<160, 90>>
DefaultVoxelgridShape == <<32, 32, 32>>

NotStarted ==
    /\ phase = "new"
    /\ error = "none"
    /\ qrcodes = <<>>
    /\ qrcodes_dictionary = EmptyDict
    /\ image_cache = NoContent
    /\ voxelgrid_cache = NoContent
    /\ pointcloud_cache = NoContent
    /\ ret = NoRet
    /\ gen = NoGen

(* Construction claims: every list of at most MaxMeasures measurement       *)
(* records, in every order, over every personal-record layout.             *)
BuildInit ==
    /\ dataset_exists \in BOOLEAN
    /\ IF dataset_exists
       THEN \E n \in 0..MaxMeasures : \E docs \in [1..n -> MeasureDocs] :
            \E personal \in PersonalSets :
               fs_json = personal \o [i \in 1..n |-> MeasureFile(i, docs[i])]
       ELSE fs_json = <<>>
    /\ fs_jpg = IF dataset_exists
                THEN <<JpgOf(QrA, "1"), JpgOf(QrB, "1"), QrA \o <<"_", "2", "j">>>>
                ELSE <<>>
    /\ fs_pcd = IF dataset_exists THEN <<PcdOf(QrA, "1"), PcdOf(QrAB, "1")>> ELSE <<>>
    /\ fs_content = NoContent
    /\ numpy_strict = FALSE
    /\ input_type = "image"
    /\ output_targets \in {<<"height", "weight">>, <<"weight", "height">>,
                           <<"weight">>, <<"height", "muac">>}
    /\ image_target_shape = DefaultImageShape
    /\ voxelgrid_target_shape = DefaultVoxelgridShape
    /\ pointcloud_target_size = 2
    /\ NotStarted

BuildNext == Construct

BuildSpec == BuildInit /\ [][BuildNext]_vars

----------------------------------------------------------------------------
(* Claims about construction (checked under BuildSpec).                    *)

\* The measurement records of type "manual" whose join resolves to q.
ManualFor(q) ==
    {i \in 1..Len(json_paths_measures) :
        /\ json_paths_measures[i].doc.type = "manual"
        /\ _extract_qrcode(json_paths_measures[i].doc) = Returns(q)}

\* The measurement records of another type whose join resolves to q.
OtherFor(q) ==
    {i \in 1..Len(json_paths_measures) :
        /\ json_paths_measures[i].doc.type # "manual"
        /\ _extract_qrcode(json_paths_measures[i].doc) = Returns(q)}

Subjects == {QrA, QrB, QrAB}

(* C6: in every constructed index, each dictionary key is one of qrcodes,   *)
(* a subject has an entry exactly when it has one manual record (never     *)
(* more), and the entry's targets are that record's values of the          *)
(* requested fields, in the requested order.                               *)
C6_IndexWellFormed ==
    phase = "ready" =>
        /\ DOMAIN qrcodes_dictionary \subseteq Range(qrcodes)
        /\ \A q \in Range(qrcodes) :
              /\ Cardinality(ManualFor(q)) <= 1
              /\ q \in DOMAIN qrcodes_dictionary <=> ManualFor(q) # {}
        /\ \A q \in DOMAIN qrcodes_dictionary : \A i \in ManualFor(q) :
              LET targets == qrcodes_dictionary[q][1]
                  doc == json_paths_measures[i].doc
              IN  /\ Len(targets) = Len(output_targets)
                  /\ \A k \in 1..Len(output_targets) : targets[k] = doc[output_targets[k]]

C6_Witness ==
    /\ phase = "ready"
    /\ Cardinality(DOMAIN qrcodes_dictionary) = 2
    /\ Len(output_targets) = 2
    /\ \E q \in DOMAIN qrcodes_dictionary :
          /\ OtherFor(q) # {}
          /\ qrcodes_dictionary[q][1][1] # qrcodes_dictionary[q][1][2]

(* C7: two manual records that resolve to the same subject make            *)
(* construction fail and leave no index; the duplicate-measurement error   *)
(* is raised only then; and a record of another type neither creates an    *)
(* entry nor changes the targets of one, wherever it stands in the list.   *)
C7_DuplicateManualIsFatal ==
    phase # "new" =>
        /\ (\E q \in Subjects : Cardinality(ManualFor(q)) >= 2) =>
              /\ phase = "failed"
              /\ qrcodes_dictionary = EmptyDict
        /\ error = "Exception" => \E q \in Subjects : Cardinality(ManualFor(q)) >= 2
        /\ phase = "ready" =>
              \A q \in Subjects :
                 /\ ManualFor(q) = {} => q \notin DOMAIN qrcodes_dictionary
                 /\ q \in DOMAIN qrcodes_dictionary =>
                       \E i \in ManualFor(q) : \A k \in 1..Len(output_targets) :
                          qrcodes_dictionary[q][1][k] =
                             json_paths_measures[i].doc[output_targets[k]]

C7_Witness ==
    /\ phase = "failed"
    /\ error = "Exception"
    /\ \E q \in Subjects : Cardinality(ManualFor(q)) = 2 /\ OtherFor(q) # {}

----------------------------------------------------------------------------
(* Decoded arrays and the decoding libraries.                              *)
(* A file is [ok, points]: whether the library can parse it and, for a     *)
(* point cloud, its rows.  A decoded array is [src, shape, rows]: the file *)
(* it was decoded from, its numpy shape and, for a raw point cloud, the    *)
(* rows it holds (every row has 4 columns).                                *)

Modalities == {"image", "voxelgrid", "pointcloud"}
PointColumns == 4

\* `value == []` followed by `if`, for a value read with cache.get(path, []):
\* the default [] equals [], while an array compared with [] is False under
\* numpy's legacy comparison and raises under its strict one.
CacheMiss(cache, path) ==
    IF path \notin DOMAIN cache THEN Returns(TRUE)
    ELSE IF numpy_strict THEN Raises("ValueError")
    ELSE Returns(FALSE)

Caches(ic, vc, pc) == [image |-> ic, voxelgrid |-> vc, pointcloud |-> pc]

Loaded(c, v, d) == [exc |-> "none", value |-> v, c |-> c, decoded |-> d]
Failed(c, e) == [exc |-> e, value |-> NoArray, c |-> c, decoded |-> FALSE]

\* load_img(target_size=(h, w)) gives a w x h picture; rotate(-90, expand)
\* turns it into an h x w one, which numpy holds as (w, h, 3).
ImageArray(path) ==
    [src |-> path, shape |-> <<image_target_shape[2], image_target_shape[1], 3>>,
     rows |-> <<>>]

(* _load_image: looks the path up in image_cache, decodes on a miss and    *)
(* stores the array in voxelgrid_cache (line 136).                         *)
_load_image(c, image_path) ==
    LET miss == CacheMiss(c.image, image_path)
    IN  IF miss.exc # "none" THEN Failed(c, miss.exc)
        ELSE IF ~miss.value THEN Loaded(c, c.image[image_path], FALSE)
        ELSE IF ~fs_content[image_path].ok THEN Failed(c, "OSError")
        ELSE Loaded([c EXCEPT !.voxelgrid = Put(@, image_path, ImageArray(image_path))],
                    ImageArray(image_path), TRUE)

\* The density feature vector of an n_x x n_y x n_z voxel grid.
VoxelgridArray(path) == [src |-> path, shape |-> voxelgrid_target_shape, rows |-> <<>>]

(* _load_voxelgrid: a file that cannot be parsed, or that holds no point,   *)
(* makes the library raise; otherwise the grid is cached under the path.   *)
_load_voxelgrid(c, pcd_path) ==
    LET miss == CacheMiss(c.voxelgrid, pcd_path)
    IN  IF miss.exc # "none" THEN Failed(c, miss.exc)
        ELSE IF ~miss.value THEN Loaded(c, c.voxelgrid[pcd_path], FALSE)
        ELSE IF ~fs_content[pcd_path].ok THEN Failed(c, "OSError")
        ELSE IF fs_content[pcd_path].points = <<>> THEN Failed(c, "ValueError")
        ELSE Loaded([c EXCEPT !.voxelgrid = Put(@, pcd_path, VoxelgridArray(pcd_path))],
                    VoxelgridArray(pcd_path), TRUE)

Min(a, b) == IF a < b THEN a ELSE b

\* points.values[:pointcloud_target_size]
PointcloudArray(path) ==
    LET n == Min(Len(fs_content[path].points), pointcloud_target_size)
    IN  [src |-> path, shape |-> <<n, PointColumns>>,
         rows |-> SubSeq(fs_content[path].points, 1, n)]

(* _load_pointcloud: after the truncation, the assertion of line 158 reads  *)
(* the name pointcloud_target_size, which is neither a local nor a global: *)
(* evaluating it raises NameError, whatever the file holds, and line 159   *)
(* (the store into pointcloud_cache) is never reached.                     *)
_load_pointcloud(c, pcd_path) ==
    LET miss == CacheMiss(c.pointcloud, pcd_path)
    IN  IF miss.exc # "none" THEN Failed(c, miss.exc)
        ELSE IF ~miss.value THEN Loaded(c, c.pointcloud[pcd_path], FALSE)
        ELSE IF ~fs_content[pcd_path].ok THEN Failed(c, "OSError")
        ELSE Failed(c, "NameError")

(* get_input_shape: three literals; the else branch builds its message      *)
(* from the undefined name input_type, so it raises NameError.             *)
get_input_shape ==
    IF input_type = "image" THEN Returns(<<90, 160, 3>>)
    ELSE IF input_type = "voxelgrid" THEN Returns(<<32, 32, 32>>)
    ELSE IF input_type = "pointcloud" THEN Returns(<<32000, 4>>)
    ELSE Raises("NameError")

get_output_size == Len(output_targets)

CurrentCaches == Caches(image_cache, voxelgrid_cache, pointcloud_cache)

SetCaches(c) ==
    /\ image_cache' = c.image
    /\ voxelgrid_cache' = c.voxelgrid
    /\ pointcloud_cache' = c.pointcloud

----------------------------------------------------------------------------
(* Direct calls of the loaders and of get_input_shape.  The caller does    *)
(* one thing at a time: a direct call drops the generator it held (a       *)
(* suspended generator keeps nothing but its two arguments, so creating it *)
(* again loses no behaviour), and generate() forgets the last result.      *)

Idle == phase = "ready" /\ gen.state # "running"

LoaderCall(op, path, r) ==
    /\ ret' = [Outcome(op) EXCEPT !.path = path, !.exc = r.exc, !.value = r.value,
                                  !.decoded = r.decoded]
    /\ SetCaches(r.c)
    /\ gen' = NoGen
    /\ UNCHANGED <<dataset, arguments, index>>

LoadImage(path) ==
    /\ Idle
    /\ LoaderCall("_load_image", path, _load_image(CurrentCaches, path))

LoadVoxelgrid(path) ==
    /\ Idle
    /\ LoaderCall("_load_voxelgrid", path, _load_voxelgrid(CurrentCaches, path))

LoadPointcloud(path) ==
    /\ Idle
    /\ LoaderCall("_load_pointcloud", path, _load_pointcloud(CurrentCaches, path))

GetInputShape ==
    /\ Idle
    /\ ret' = [Outcome("get_input_shape") EXCEPT !.exc = get_input_shape.exc,
                                                 !.shape = get_input_shape.value]
    /\ gen' = NoGen
    /\ UNCHANGED <<dataset, arguments, index, caches>>

----------------------------------------------------------------------------
(* generate_dataset.  The loop state: the caches, the three lists, the      *)
(* function-level variable voxelgrid (unbound until the first successful   *)
(* _load_voxelgrid), the number of loader calls that returned, and the     *)
(* exception that ended the call, if any.                                  *)

DatasetStart(c) ==
    [exc |-> "none", c |-> c, x_qrcodes |-> <<>>, x_inputs |-> <<>>,
     y_outputs |-> <<>>, bound |-> FALSE, voxelgrid |-> NoArray, loaded |-> 0]

AppendRow(st, qrcode, x_input, targets) ==
    [st EXCEPT !.x_qrcodes = Append(@, qrcode),
               !.x_inputs = Append(@, x_input),
               !.y_outputs = Append(@, targets)]

\* The body of the inner loops (lines 281-315) for one file.
DatasetFile(st, qrcode, targets, path) ==
    IF input_type = "image"
    THEN LET r == _load_image(st.c, path)
         IN  IF r.exc # "none" THEN [st EXCEPT !.exc = r.exc]
             ELSE AppendRow([st EXCEPT !.c = r.c, !.loaded = @ + 1],
                            qrcode, r.value, targets)
    ELSE IF input_type = "voxelgrid"
    THEN LET r == _load_voxelgrid(st.c, path)
         IN  IF r.exc # "none"
             \* the handler prints and falls through to the appends
             THEN IF st.bound THEN AppendRow(st, qrcode, st.voxelgrid, targets)
                  ELSE [st EXCEPT !.exc = "UnboundLocalError"]
             ELSE AppendRow([st EXCEPT !.c = r.c, !.loaded = @ + 1,
                                       !.bound = TRUE, !.voxelgrid = r.value],
                            qrcode, r.value, targets)
    ELSE LET r == _load_pointcloud(st.c, path)
         IN  IF r.exc # "none" THEN st
             ELSE AppendRow([st EXCEPT !.c = r.c, !.loaded = @ + 1],
                            qrcode, r.value, targets)

RECURSIVE DatasetFiles(_, _, _, _)
DatasetFiles(st, qrcode, targets, paths) ==
    IF paths = <<>> \/ st.exc # "none" THEN st
    ELSE DatasetFiles(DatasetFile(st, qrcode, targets, Head(paths)),
                      qrcode, targets, Tail(paths))

\* The body of the outer loop (lines 267-318) for one subject.
DatasetSubject(st, qrcode) ==
    IF qrcode \notin DOMAIN qrcodes_dictionary THEN st
    ELSE LET entry == qrcodes_dictionary[qrcode]
         IN  IF input_type = "image"
             THEN DatasetFiles(st, qrcode, entry[1], entry[2])
             ELSE IF input_type \in {"voxelgrid", "pointcloud"}
             THEN DatasetFiles(st, qrcode, entry[1], entry[3])
             ELSE [st EXCEPT !.exc = "NameError"]

RECURSIVE DatasetLoop(_, _)
DatasetLoop(st, qrcodes_to_use) ==
    IF qrcodes_to_use = <<>> \/ st.exc # "none" THEN st
    ELSE DatasetLoop(DatasetSubject(st, Head(qrcodes_to_use)), Tail(qrcodes_to_use))

generate_dataset(c, qrcodes_to_use) == DatasetLoop(DatasetStart(c), qrcodes_to_use)

\* The subject lists a caller passes; qrcodes_to_use=None stands for
\* self.qrcodes (lines 185-186, 261-262).
SubjectLists == {<<>>, <<QrA>>, <<QrB>>, <<QrB, QrA>>} \cup {qrcodes}

GenerateDataset(qrcodes_to_use) ==
    /\ Idle
    /\ LET r == generate_dataset(CurrentCaches, qrcodes_to_use)
           done == r.exc = "none"
       IN  /\ ret' = [Outcome("generate_dataset") EXCEPT
                         !.qrcodes_to_use = qrcodes_to_use,
                         !.exc = r.exc,
                         !.x_qrcodes = IF done THEN r.x_qrcodes ELSE <<>>,
                         !.x_inputs = IF done THEN r.x_inputs ELSE <<>>,
                         !.y_outputs = IF done THEN r.y_outputs ELSE <<>>,
                         !.loaded = r.loaded]
           \* a store made before the exception stays in the cache
           /\ SetCaches(r.c)
    /\ gen' = NoGen
    /\ UNCHANGED <<dataset, arguments, index>>

----------------------------------------------------------------------------
(* generate.  The generator object: its arguments, the two accumulators,    *)
(* where it stands (created, running, yielded, raised), the outcome of the *)
(* latest pass of the inner loop, and the exception that ended it.         *)

Generator(size, qrcodes_to_use) ==
    [state |-> "created", size |-> size, qrcodes_to_use |-> qrcodes_to_use,
     x_inputs |-> <<>>, y_outputs |-> <<>>, attempt |-> "none",
     exc |-> "none", where |-> "none"]

\* generate(size, qrcodes_to_use): nothing runs before the first next().
Generate(size, qrcodes_to_use) ==
    /\ Idle
    /\ gen' = Generator(size, qrcodes_to_use)
    /\ ret' = NoRet
    /\ UNCHANGED <<dataset, arguments, index, caches>>

\* next(): the body resumes at the top of `while True` (lines 190-191).
GenNext ==
    /\ phase = "ready"
    /\ gen.state \in {"created", "yielded"}
    /\ gen' = [gen EXCEPT !.state = "running", !.x_inputs = <<>>,
                          !.y_outputs = <<>>, !.attempt = "none"]
    /\ UNCHANGED <<dataset, arguments, index, caches, ret>>

GenRaise(e, where) ==
    gen' = [gen EXCEPT !.state = "raised", !.exc = e, !.where = where]

GenRetry(why) == gen' = [gen EXCEPT !.attempt = why]

GenAppend(x_input, targets) ==
    gen' = [gen EXCEPT !.x_inputs = Append(@, x_input),
                       !.y_outputs = Append(@, targets),
                       !.attempt = "appended"]

\* Lines 205-237 once a subject with a dictionary entry is drawn; j is the
\* draw of random.choice among the subject's paths.
GenSample(entry, j) ==
    IF input_type = "image"
    THEN LET r == _load_image(CurrentCaches, entry[2][j])
         IN  IF r.exc # "none"
             THEN GenRaise(r.exc, "_load_image") /\ UNCHANGED caches
             ELSE GenAppend(r.value, entry[1]) /\ SetCaches(r.c)
    ELSE IF input_type = "voxelgrid"
    THEN LET r == _load_voxelgrid(CurrentCaches, entry[3][j])
         IN  IF r.exc # "none"
             THEN GenRetry("decode-failed") /\ UNCHANGED caches
             ELSE GenAppend(r.value, entry[1]) /\ SetCaches(r.c)
    ELSE LET r == _load_pointcloud(CurrentCaches, entry[3][j])
         IN  IF r.exc # "none"
             THEN GenRetry("decode-failed") /\ UNCHANGED caches
             ELSE GenAppend(r.value, entry[1]) /\ SetCaches(r.c)

\* One pass of `while len(x_inputs) < size` (lines 195-248); i is the draw
\* of random.choice(qrcodes_to_use) and j that of random.choice among the
\* subject's paths (j = 1 when the pass ends before the second draw).
GenAttempt(i, j) ==
    /\ phase = "ready"
    /\ gen.state = "running"
    /\ Len(gen.x_inputs) < gen.size
    /\ i \in 1..Len(gen.qrcodes_to_use)
    /\ LET qrcode == gen.qrcodes_to_use[i]
           entry == qrcodes_dictionary[qrcode]
           paths == IF input_type = "image" THEN entry[2] ELSE entry[3]
       IN  IF qrcode \notin DOMAIN qrcodes_dictionary
           THEN j = 1 /\ GenRetry("no-entry") /\ UNCHANGED caches
           ELSE IF input_type \notin Modalities
           THEN j = 1 /\ GenRaise("NameError", "input_type") /\ UNCHANGED caches
           ELSE IF Len(paths) = 0
           THEN j = 1 /\ GenRetry("no-paths") /\ UNCHANGED caches
           ELSE j \in 1..Len(paths) /\ GenSample(entry, j)
    /\ UNCHANGED <<dataset, arguments, index, ret>>

\* random.choice of an empty list raises IndexError.
GenChoiceFails ==
    /\ phase = "ready"
    /\ gen.state = "running"
    /\ Len(gen.x_inputs) < gen.size
    /\ gen.qrcodes_to_use = <<>>
    /\ GenRaise("IndexError", "random.choice")
    /\ UNCHANGED <<dataset, arguments, index, caches, ret>>

\* The inner loop ends and the batch is yielded (lines 250-256).
GenYield ==
    /\ phase = "ready"
    /\ gen.state = "running"
    /\ Len(gen.x_inputs) >= gen.size
    /\ gen' = [gen EXCEPT !.state = "yielded"]
    /\ UNCHANGED <<dataset, arguments, index, caches, ret>>

----------------------------------------------------------------------------
(* Operation claims: a dataset of two subjects, A with a manual record and *)
(* B with a manual or an automatic one, over every combination of readable *)
(* and unreadable files, for every input_type and two configurations.      *)

Points(n) == [i \in 1..n |-> i]
Unreadable == [ok |-> FALSE, points |-> <<>>]
Readable(n) == [ok |-> TRUE, points |-> Points(n)]

PcdContents == {Unreadable} \cup {Readable(n) : n \in 0..MaxPoints}

\* The default arguments of __init__ (lines 18-20), and the ones
\* test_parameters passes (with a point-cloud size the model's files reach).
Configurations ==
    { [image |-> DefaultImageShape, voxelgrid |-> DefaultVoxelgridShape,
       pointcloud |-> 32000],
      [image |-> <<20, 20>>, voxelgrid |-> <<20, 20, 20>>, pointcloud |-> 2] }

Init ==
    /\ dataset_exists = TRUE
    /\ \E t \in {"manual", "auto"} :
          fs_json = <<PersonalFile(P1, QrA), PersonalFile(P2, QrB),
                      MeasureFile(1, [type |-> "manual", personId |-> P1,
                                      height |-> 150, weight |-> 45]),
                      MeasureFile(2, [type |-> t, personId |-> P2,
                                      height |-> 160, weight |-> 45])>>
    /\ \E a1 \in PcdContents, a2 \in {<<>>, <<Unreadable>>}, imageOk \in BOOLEAN :
          /\ fs_jpg = <<JpgOf(QrA, "1"), JpgOf(QrB, "1")>>
          /\ fs_pcd = <<PcdOf(QrA, "1")>>
                      \o (IF a2 # <<>> THEN <<PcdOf(QrA, "2")>> ELSE <<>>)
                      \o <<PcdOf(QrB, "1")>>
          /\ fs_content =
                [p \in Range(fs_jpg) \cup Range(fs_pcd) |->
                    IF p = JpgOf(QrA, "1") THEN [ok |-> imageOk, points |-> <<>>]
                    ELSE IF p = JpgOf(QrB, "1") THEN [ok |-> TRUE, points |-> <<>>]
                    ELSE IF p = PcdOf(QrA, "1") THEN a1
                    ELSE IF p = PcdOf(QrA, "2") THEN a2[1]
                    ELSE Readable(MaxPoints)]
    /\ numpy_strict \in BOOLEAN
    /\ input_type \in Modalities \cup {"depthmap"}
    /\ output_targets = <<"height", "weight">>
    /\ \E cfg \in Configurations :
          /\ image_target_shape = cfg.image
          /\ voxelgrid_target_shape = cfg.voxelgrid
          /\ pointcloud_target_size = cfg.pointcloud
    /\ NotStarted

Next ==
    \/ Construct
    \/ \E path \in Range(fs_jpg) : LoadImage(path)
    \/ \E path \in Range(fs_pcd) : LoadVoxelgrid(path)
    \/ \E path \in Range(fs_pcd) : LoadPointcloud(path)
    \/ GetInputShape
    \/ \E s \in SubjectLists : GenerateDataset(s)
    \/ \E size \in 0..MaxBatch, s \in SubjectLists : Generate(size, s)
    \/ GenNext
    \/ \E i \in 1..Len(gen.qrcodes_to_use), j \in 1..Len(fs_pcd) : GenAttempt(i, j)
    \/ GenChoiceFails
    \/ GenYield

Spec == Init /\ [][Next]_vars

\* A consumer that keeps pulling, a body that runs once resumed, and draws
\* of random.choice that are fair: a draw that stays possible is eventually
\* made.
FairSpec ==
    /\ Spec
    /\ WF_vars(GenNext)
    /\ WF_vars(GenYield)
    /\ WF_vars(GenChoiceFails)
    /\ \A i \in 1..2, j \in 1..3 : WF_vars(GenAttempt(i, j))

----------------------------------------------------------------------------
(* Claims about the operations (checked under Spec and FairSpec).          *)

\* The paths of subject q for the configured modality.
ModalityPaths(q) ==
    IF input_type = "image" THEN qrcodes_dictionary[q][2] ELSE qrcodes_dictionary[q][3]

\* The file is one the configured modality is meant to decode: a readable
\* image, a readable point cloud with at least one point (voxel grid), or
\* one with at least pointcloud_target_size points (raw point cloud).
WellFormed(path) ==
    /\ fs_content[path].ok
    /\ input_type = "voxelgrid" => fs_content[path].points # <<>>
    /\ input_type = "pointcloud" => Len(fs_content[path].points) >= pointcloud_target_size

GoodSubject(q) ==
    /\ q \in DOMAIN qrcodes_dictionary
    /\ ModalityPaths(q) # <<>>
    /\ \A p \in Range(ModalityPaths(q)) : WellFormed(p)

C1_Pulled ==
    /\ input_type \in Modalities
    /\ gen.state = "running"
    /\ gen.size > 0
    /\ \E q \in Range(gen.qrcodes_to_use) : GoodSubject(q)

C1_Yielded ==
    /\ gen.state = "yielded"
    /\ Len(gen.x_inputs) = gen.size
    /\ Len(gen.y_outputs) = gen.size

(* C1: in each of the three modalities, once a generator whose subject     *)
(* list holds a subject with an entry and well-formed files is pulled, it  *)
(* eventually yields a batch of exactly size inputs and size targets.      *)
C1_EventuallyYields == C1_Pulled ~> C1_Yielded

(* C2: in generate, a pass of the loop whose file fails to decode leaves   *)
(* the generator running with both accumulators unchanged: the failure is  *)
(* not raised to the consumer and no row is added.                         *)
C2_DecodeFailureRetried ==
    [][ (gen.state = "running"
         /\ (gen'.attempt = "decode-failed" \/ gen'.where = "_load_image"))
        => /\ gen'.state = "running"
           /\ gen'.x_inputs = gen.x_inputs
           /\ gen'.y_outputs = gen.y_outputs ]_vars

(* C3: in generate_dataset, in every modality, the call does not fail and  *)
(* each of the three lists has as many rows as loader calls returned: a    *)
(* file whose decode fails adds nothing to any of them.                    *)
C3_FailedFileAddsNoRow ==
    (ret.op = "generate_dataset" /\ input_type \in Modalities) =>
        /\ ret.exc = "none"
        /\ Len(ret.x_qrcodes) = ret.loaded
        /\ Len(ret.x_inputs) = ret.loaded
        /\ Len(ret.y_outputs) = ret.loaded

\* The loader of the configured modality on a file nothing has cached.
ColdLoad(path) ==
    LET c == Caches(NoContent, NoContent, NoContent)
    IN  IF input_type = "image" THEN _load_image(c, path)
        ELSE IF input_type = "voxelgrid" THEN _load_voxelgrid(c, path)
        ELSE _load_pointcloud(c, path)

\* One row <<subject, decoded array, targets>> per file that decodes, in
\* path-list order.
RECURSIVE ExpectedFiles(_, _)
ExpectedFiles(q, paths) ==
    IF paths = <<>> THEN <<>>
    ELSE (IF ColdLoad(Head(paths)).exc = "none"
          THEN <<<<q, ColdLoad(Head(paths)).value, qrcodes_dictionary[q][1]>>>>
          ELSE <<>>)
         \o ExpectedFiles(q, Tail(paths))

RECURSIVE ExpectedRows(_)
ExpectedRows(subset) ==
    IF subset = <<>> THEN <<>>
    ELSE (IF Head(subset) \in DOMAIN qrcodes_dictionary
          THEN ExpectedFiles(Head(subset), ModalityPaths(Head(subset)))
          ELSE <<>>)
         \o ExpectedRows(Tail(subset))

(* C4: generate_dataset returns three lists of one length, with one row    *)
(* per file that decodes, in subset order and then path-list order: the    *)
(* subject, the array decoded from that file, the subject's targets.       *)
C4_RowsInOrder ==
    (ret.op = "generate_dataset" /\ ret.exc = "none" /\ input_type \in Modalities) =>
        LET rows == ExpectedRows(ret.qrcodes_to_use)
        IN  /\ Len(ret.x_qrcodes) = Len(rows)
            /\ Len(ret.x_inputs) = Len(rows)
            /\ Len(ret.y_outputs) = Len(rows)
            /\ \A k \in 1..Len(rows) :
                  /\ ret.x_qrcodes[k] = rows[k][1]
                  /\ ret.x_inputs[k] = rows[k][2]
                  /\ ret.y_outputs[k] = rows[k][3]

LoaderOps == {"_load_image", "_load_voxelgrid", "_load_pointcloud"}

\* The cache that belongs to a loader, among the three given.
OwnCache(op, ic, vc, pc) ==
    IF op = "_load_image" THEN ic
    ELSE IF op = "_load_voxelgrid" THEN vc
    ELSE pc

(* C5: a loader call that succeeds leaves its array under the path in the  *)
(* loader's own cache; and a call on a path that cache already holds       *)
(* succeeds, returns the stored array and does not decode the file.        *)
C5_LoaderCachesByPath ==
    [][ (ret'.op \in LoaderOps /\ ret' # ret) =>
          LET before == OwnCache(ret'.op, image_cache, voxelgrid_cache, pointcloud_cache)
              after == OwnCache(ret'.op, image_cache', voxelgrid_cache', pointcloud_cache')
          IN  /\ ret'.exc = "none" =>
                    /\ ret'.path \in DOMAIN after
                    /\ after[ret'.path] = ret'.value
              /\ ret'.path \in DOMAIN before =>
                    /\ ret'.exc = "none"
                    /\ ret'.value = before[ret'.path]
                    /\ ~ret'.decoded ]_vars

(* C8: with an input_type outside the three modalities nothing ever        *)
(* succeeds or retries: the instance is not constructed, or               *)
(* generate_dataset on a subset that names a subject raises, and a pulled  *)
(* generator neither yields nor goes round its loop again.                 *)
C8_UnknownModalityIsFatal ==
    (input_type \notin Modalities /\ phase = "ready") =>
        /\ (ret.op = "generate_dataset" /\ ret.qrcodes_to_use # <<>>) => ret.exc # "none"
        /\ gen.state # "yielded"
        /\ gen.attempt \notin {"no-entry", "no-paths", "decode-failed"}

(* C9: _load_pointcloud on a readable file succeeds exactly when the file  *)
(* holds at least pointcloud_target_size points, and then returns the      *)
(* file's first pointcloud_target_size rows and stores them in             *)
(* pointcloud_cache under the path.                                        *)
C9_PointcloudTruncated ==
    (ret.op = "_load_pointcloud" /\ fs_content[ret.path].ok) =>
        IF Len(fs_content[ret.path].points) >= pointcloud_target_size
        THEN /\ ret.exc = "none"
             /\ ret.value = PointcloudArray(ret.path)
             /\ ret.value.shape = <<pointcloud_target_size, PointColumns>>
             /\ ret.path \in DOMAIN pointcloud_cache
             /\ pointcloud_cache[ret.path] = ret.value
        ELSE ret.exc # "none"

(* C10: every array that generate yields or generate_dataset returns has   *)
(* the shape get_input_shape() reports, whatever the configured shapes.    *)
C10_InputShapeMatches ==
    input_type \in Modalities =>
        /\ gen.state = "yielded" =>
              \A k \in 1..Len(gen.x_inputs) :
                 gen.x_inputs[k].shape = get_input_shape.value
        /\ (ret.op = "generate_dataset" /\ ret.exc = "none") =>
              \A k \in 1..Len(ret.x_inputs) :
                 ret.x_inputs[k].shape = get_input_shape.value

====
